---- MODULE Spec2Model ----
(***************************************************************************)
(* Model of the persistent RAM console                                     *)
(* (drivers/staging/android/ram_console.c).  The variable ecc says whether  *)
(* the build has CONFIG_ANDROID_RAM_CONSOLE_ERROR_CORRECTION.              *)
(*                                                                         *)
(* The backing region survives a warm reboot; the module's statics do not. *)
(* One boot is: ram_console_init (called once, from the probe), then any   *)
(* number of ram_console_write calls from the console framework, then a    *)
(* reboot.                                                                 *)
(***************************************************************************)
EXTENDS Integers, Sequences, FiniteSets, TLC

\* ------------------------------------------------------------------ bounds
\* Largest data capacity (bytes after the header) of the regions explored.
MaxCap == 3
\* Longest string handed to one ram_console_write call.
MaxCount == 4

\* Longest read asked of /proc/last_kmsg in one call.
MaxRead == 2

\* ------------------------------------------------------- program constants
\* EFAULT of errno.h.
EFAULT == 14
\* sizeof(struct ram_console_buffer): three uint32_t fields, data[0] adds none.
HeaderSize == 12
\* RAM_CONSOLE_SIG, 0x43474244 "DBGC".
RAM_CONSOLE_SIG == 1128743492

\* ECC_BLOCK_SIZE and ECC_SIZE come from the kernel configuration; the model
\* takes small ones: a power of two of data bytes in a block (the code masks
\* with ECC_BLOCK_SIZE - 1) and half as many parity bytes.
ECC_BLOCK_SIZE == 2^1
ECC_SIZE == ECC_BLOCK_SIZE \div 2
\* The wrong symbols of one unit the decoder can correct.  It grows with the
\* parity width; the model's narrow parity stands for one that corrects one
\* symbol for every parity byte.
ECC_T == ECC_SIZE

\* A signature value that is not RAM_CONSOLE_SIG (foreign or cold memory).
BadSig == RAM_CONSOLE_SIG + 1
\* size_t arithmetic is modular.  The model's integers are 32 bit signed, so
\* the modulus stands for 2^32 (size_t of the 32 bit ARM build); every region
\* explored is far smaller than either.
SizeModulus == 2^30
\* The bytes written in the bounded exploration.
Byte == {0, 1}
\* ram_console_old_log before ram_console_save_old has set it.  No byte is
\* negative, so no recovered log equals it.
NULL == << -1 >>

Min(a, b) == IF a < b THEN a ELSE b

\* DIV_ROUND_UP(n, d)
DIV_ROUND_UP(n, d) == (n + d - 1) \div d

\* The strings the console framework hands to ram_console_write.
Strings == UNION {[1..n -> Byte] : n \in 0..MaxCount}
\* The total sizes the platform resource may give the region: one too small
\* for the header, and every data capacity 0..MaxCap.
BufferSizes == {HeaderSize - 1} \cup {HeaderSize + c : c \in 0..MaxCap}

VARIABLES
    buffer_size,               \* the region's total size (probe's argument)
    buffer,                    \* struct ram_console_buffer in the region
    ram_console_buffer_size,   \* static: the data capacity
    ram_console_old_log,       \* static: the recovered log, or NULL
    ram_console_old_log_size,  \* static
    registered,                \* register_console(&ram_console) was called
    pc,                        \* "boot": before the probe; "run": after it
    kmalloc_fails,             \* whether this boot's kmalloc returns NULL
    written,                   \* history: the last bytes written since init
    total,                     \* history: bytes written since init, saturating
    last_count,                \* history: count of the latest write call
    prev_written,              \* history: written, as the last boot left it
    ecc,                       \* the build has the error correction
    init_rs_fails,             \* whether this boot's init_rs returns NULL
    ram_console_corrected_bytes,   \* static (ECC build)
    ram_console_bad_blocks,        \* static (ECC build)
    flips,                     \* symbols corrupted so far
    last_kmsg,                 \* /proc/last_kmsg: "pending", "absent", "present"
    offset,                    \* the reader's file position (*offset)
    ret,                       \* what the latest read returned
    ubuf,                      \* the bytes the latest read copied to the user
    origin,                    \* history: where the reader last set its position
    acc,                       \* history: the bytes read since then, in order
    snapshot,                  \* history: the old log as /proc exposed it
    wpc,                       \* where the write in flight is, "idle" if none
    w_s,                       \* the write in flight: what is left of s
    w_pre,                     \* history: the region when that write began
    w_count,                   \* history: its count after the clamp
    cut,                       \* history: a crash cut the latest write short
    ppc,                       \* max77693 charger: where probe or remove is
    cable_connected,           \* chg->cable.connected
    charger,                   \* chg->charger: "NULL", "ERR", "registered", "unregistered"
    notifiers,                 \* the extcon cables whose chain holds chg->cable.nb
    files,                     \* the sysfs attributes that exist
    extcon,                    \* the state of the SDP and the DCP cable
    work_pending,              \* chg->cable.work is queued
    wk,                        \* where the worker is, "idle" between runs
    old_connected,             \* the worker's local of that name
    regu_enabled,              \* the charger regulator is enabled
    regu_failed,               \* history: a regulator call of this run failed
    notified,                  \* history: calls of power_supply_changed
    events                     \* history: cable events so far

\* The state of the error correction.
ecc_vars == <<ecc, init_rs_fails, ram_console_corrected_bytes,
              ram_console_bad_blocks, flips>>

\* The state of the reader of /proc/last_kmsg.
read_vars == <<last_kmsg, offset, ret, ubuf, origin, acc, snapshot>>

\* The state of a write followed store by store.
crash_vars == <<wpc, w_s, w_pre, w_count, cut>>

\* The state of the max77693 charger driver and of what it talks to.
charger_vars == <<ppc, cable_connected, charger, notifiers, files, extcon,
                  work_pending, wk, old_connected, regu_enabled, regu_failed,
                  notified, events>>

\* The state of the RAM console.
ram_console_vars ==
    <<buffer_size, buffer, ram_console_buffer_size, ram_console_old_log,
      ram_console_old_log_size, registered, pc, kmalloc_fails, written,
      total, last_count, prev_written, ecc_vars, read_vars, crash_vars>>

vars == <<ram_console_vars, charger_vars>>

\* The charger driver is not bound and no cable event has happened.
NoCharger ==
    /\ ppc = "unbound"
    /\ cable_connected = FALSE
    /\ charger = "NULL"
    /\ notifiers = {}
    /\ files = {}
    /\ extcon = [SDP |-> FALSE, DCP |-> FALSE]
    /\ work_pending = FALSE
    /\ wk = "idle"
    /\ old_connected = FALSE
    /\ regu_enabled = FALSE
    /\ regu_failed = FALSE
    /\ notified = 0
    /\ events = 0

\* No write is in flight and none was cut short.
NoWriteInFlight ==
    /\ wpc = "idle"
    /\ w_s = << >>
    /\ w_pre = NULL
    /\ w_count = 0
    /\ cut = FALSE

\* Before /proc/last_kmsg exists nothing was read.
NoReader ==
    /\ last_kmsg = "pending"
    /\ offset = 0
    /\ ret = 0
    /\ ubuf = << >>
    /\ origin = 0
    /\ acc = << >>
    /\ snapshot = NULL

\* ------------------------------------------------------------ pure helpers
\* The data area the region of total size n has room for.
DataLen(n) == IF n >= HeaderSize THEN n - HeaderSize ELSE 0

\* The last n elements of s (all of s when it is shorter).
Last(s, n) == IF Len(s) <= n THEN s ELSE SubSeq(s, Len(s) - n + 1, Len(s))

\* data[lo .. hi) as a sequence.
Slice(data, lo, hi) == [i \in 1..(hi - lo) |-> data[lo + i - 1]]

\* Variant: the copy is followed by a zero byte, as a string copy would be.
Memcpy_Terminated(data, off, s, count) ==
    [i \in DOMAIN data |->
        IF off <= i /\ i < off + count THEN s[i - off + 1]
        ELSE IF i = off + count THEN 0 ELSE data[i]]

\* memcpy(data + off, s, count) on the data area.
Memcpy(data, off, s, count) ==
    [i \in DOMAIN data |->
        IF off <= i /\ i < off + count THEN s[i - off + 1] ELSE data[i]]

\* ------------------------------------------------- Reed-Solomon, abstractly
\* encode_rs8 and decode_rs8 are the kernel's lib/reed_solomon.  A parity
\* segment is modelled by the symbols it was computed over: decoding compares
\* them with the symbols found.
rs_encode(d) == [rs |-> d]

\* A parity segment that was never computed by this code.
NoParity == [rs |-> << -1 >>]

\* The number of positions where two equally long sequences differ.
Hamming(a, b) == Cardinality({i \in 1..Len(a) : a[i] # b[i]})

\* decode_rs8 on the symbols d with the parity p, for a unit in which up to
\* t wrong symbols can be corrected: the number of symbols corrected and the
\* symbols afterwards; a negative number and the symbols untouched when more
\* than t of them are wrong, or the parity is none that was computed.
rs_decode_upto(t, d, p) ==
    IF p = NoParity \/ Len(p.rs) # Len(d)
    THEN [numerr |-> -1, data |-> d]
    ELSE LET h == Hamming(d, p.rs)
         IN  IF h = 0 THEN [numerr |-> 0, data |-> d]
             ELSE IF h <= t THEN [numerr |-> h, data |-> p.rs]
             ELSE [numerr |-> -1, data |-> d]

\* decode_rs8 on the bytes of a data block.
rs_decode(d, p) == rs_decode_upto(ECC_T, d, p)

\* The header fields one decode can put right.  The sixteen parity bytes of
\* a segment correct eight bytes of its unit; the header is three fields of
\* four bytes, so two of them can be wrong in every byte.
HEADER_T == 2

\* decode_rs8 on the header, its three fields taken as the symbols.
rs_decode_header(d, p) == rs_decode_upto(HEADER_T, d, p)

\* The parity segment at index idx of ram_console_par_buffer.  The segments
\* the region has room for are DOMAIN par; a store past them lands outside
\* the region and a load past them finds foreign bytes.
ParStore(par, idx, v) ==
    IF idx \in DOMAIN par THEN [par EXCEPT ![idx] = v] ELSE par
ParLoad(par, idx) == IF idx \in DOMAIN par THEN par[idx] ELSE NoParity

\* The three header fields as the symbols of the header's parity unit.
HeaderSymbols(b) == <<b.sig, b.start, b.size>>

\* ------------------------------------------------- ram_console_write, parts
\* Variant: the copy lands at buffer->data, start ignored.
ram_console_update_AtZero(b, s, count) ==
    [b EXCEPT !.data = Memcpy(b.data, 0, s, count)]

\* start & ~(ECC_BLOCK_SIZE - 1)
AlignDown(n) == n - (n % ECC_BLOCK_SIZE)

\* Variant: only the first block touched gets its parity recomputed.
EncodeBlocks_Once(par, data, o, idx, limit) ==
    LET cap  == ram_console_buffer_size
        size == IF o + ECC_BLOCK_SIZE > cap THEN cap - o ELSE ECC_BLOCK_SIZE
    IN  ParStore(par, idx, rs_encode(Slice(data, o, o + size)))

\* The do-while loop of ram_console_update: the block at offset o, its
\* parity segment at index idx, then the next block while it starts before
\* limit = start + count.  The block that would pass buffer_end is shortened.
RECURSIVE EncodeBlocks(_, _, _, _, _)
EncodeBlocks(par, data, o, idx, limit) ==
    LET cap  == ram_console_buffer_size
        size == IF o + ECC_BLOCK_SIZE > cap THEN cap - o ELSE ECC_BLOCK_SIZE
        p1   == ParStore(par, idx, rs_encode(Slice(data, o, o + size)))
    IN  IF o + ECC_BLOCK_SIZE < limit
        THEN EncodeBlocks(p1, data, o + ECC_BLOCK_SIZE, idx + 1, limit)
        ELSE p1

\* The indices of the parity segments the same loop stores to: par starts at
\* index idx and moves on by one segment with every block.
RECURSIVE EncodedSegments(_, _, _)
EncodedSegments(o, idx, limit) ==
    {idx} \cup IF o + ECC_BLOCK_SIZE < limit
               THEN EncodedSegments(o + ECC_BLOCK_SIZE, idx + 1, limit)
               ELSE {}

\* The parity segments one ram_console_update(s, count) stores to when
\* buffer->start is start.
UpdateSegments(start, count) ==
    EncodedSegments(AlignDown(start), start \div ECC_BLOCK_SIZE, start + count)

\* ram_console_update(s, count): the memcpy at buffer->data + buffer->start
\* and, in the ECC build, the parity of every block the copy touched.
ram_console_update(b, s, count) ==
    LET b1 == [b EXCEPT !.data = Memcpy(b.data, b.start, s, count)]
    IN  IF ecc
        THEN [b1 EXCEPT !.par = EncodeBlocks(b1.par, b1.data,
                                             AlignDown(b.start),
                                             b.start \div ECC_BLOCK_SIZE,
                                             b.start + count)]
        ELSE b1

\* ram_console_update_header(): in the ECC build, the header's parity, kept
\* in the segment after those of the data blocks.
ram_console_update_header(b) ==
    IF ecc
    THEN [b EXCEPT !.par =
             ParStore(b.par,
                      DIV_ROUND_UP(ram_console_buffer_size, ECC_BLOCK_SIZE),
                      rs_encode(HeaderSymbols(b)))]
    ELSE b

\* Variant: the clamp keeps the oldest bytes of the string (s not advanced).
ClampString_KeepFirst(s, cap) ==
    IF Len(s) > cap THEN SubSeq(s, 1, cap) ELSE s

\* The clamp at the head of ram_console_write: a string longer than the data
\* area loses its oldest bytes (s += count - size; count = size).
ClampString(s, cap) ==
    IF Len(s) > cap THEN SubSeq(s, Len(s) - cap + 1, Len(s)) ELSE s

\* Variant: the wrap branch without "s += rem": the second copy starts again
\* at the head of the string.
WrapSegment_NoAdvance(b, cap, s) ==
    LET count == Len(s)
        rem   == cap - b.start
    IN  IF (rem % SizeModulus) < count
        THEN [buffer |-> [ram_console_update(b, s, rem)
                             EXCEPT !.start = 0, !.size = cap],
              s      |-> SubSeq(s, 1, count - rem)]
        ELSE [buffer |-> b, s |-> s]

\* Variant: no wrap branch at all.
WrapSegment_NoWrap(b, cap, s) == [buffer |-> b, s |-> s]

\* The wrap branch: rem = size - start; if (rem < count) the first rem bytes
\* fill the area to its end, start returns to 0 and size saturates.  rem is an
\* int compared with an unsigned count, so the comparison is unsigned.
\* Gives the header and data afterwards and the rest of the string.
WrapSegment(b, cap, s) ==
    LET count == Len(s)
        rem   == cap - b.start
    IN  IF (rem % SizeModulus) < count
        THEN [buffer |-> [ram_console_update(b, s, rem)
                             EXCEPT !.start = 0, !.size = cap],
              s      |-> SubSeq(s, rem + 1, count)]
        ELSE [buffer |-> b, s |-> s]

\* Variant: size grows without the saturation test.
NextSize_Unsaturated(size, cap, count) == size + count

\* if (buffer->size < ram_console_buffer_size) buffer->size += count;
NextSize(size, cap, count) ==
    IF size < cap THEN size + count ELSE size

\* The tail of ram_console_write: copy what is left, advance start and size.
FinalSegment(b, cap, s) ==
    LET count == Len(s)
    IN  [ram_console_update(b, s, count)
            EXCEPT !.start = b.start + count,
                   !.size  = NextSize(b.size, cap, count)]

\* Variant: the header's parity is computed before the last copy and the
\* header updates that follow it.
WriteBuffer_ParityFirst(b, cap, s) ==
    LET w == WrapSegment(b, cap, ClampString(s, cap))
    IN  FinalSegment(ram_console_update_header(w.buffer), cap, w.s)

\* The region after ram_console_write(console, s, Len(s)): the header's
\* parity is computed last.
WriteBuffer(b, cap, s) ==
    LET w == WrapSegment(b, cap, ClampString(s, cap))
    IN  ram_console_update_header(FinalSegment(w.buffer, cap, w.s))

\* -------------------------------------------------- ram_console_init, parts
\* Variant: the header is not subtracted.
DataCapacity_NoHeader(n) == n % SizeModulus

\* ram_console_buffer_size = buffer_size - sizeof(struct ram_console_buffer),
\* in size_t.
DataCapacity(n) == (n - HeaderSize) % SizeModulus

\* if (ram_console_buffer_size > buffer_size): the subtraction wrapped.
CapacityRejected(n) == DataCapacity(n) > n

\* Variant: the test refuses start == size.
HeaderValid_Strict(b, cap) ==
    /\ b.sig = RAM_CONSOLE_SIG
    /\ ~(b.size > cap \/ b.start >= b.size)

\* The test that guards ram_console_save_old in ram_console_init.
HeaderValid(b, cap) ==
    /\ b.sig = RAM_CONSOLE_SIG
    /\ ~(b.size > cap \/ b.start > b.size)

\* Variant: a corrected unit counts as one more bad block.
CountOutcome_AllBad(c, numerr) ==
    IF numerr # 0 THEN [c EXCEPT !.bad = @ + 1] ELSE c

\* if (numerr > 0) ram_console_corrected_bytes += numerr;
\* else if (numerr < 0) ram_console_bad_blocks++;
CountOutcome(c, numerr) ==
    IF numerr > 0 THEN [c EXCEPT !.corrected = @ + numerr]
    ELSE IF numerr < 0 THEN [c EXCEPT !.bad = @ + 1]
    ELSE c

\* Variant: no segment is reserved for the header's parity.
EccCapacity_NoHeaderSegment(pre) ==
    (pre - DIV_ROUND_UP(pre, ECC_BLOCK_SIZE) * ECC_SIZE) % SizeModulus

\* ram_console_buffer_size -= (DIV_ROUND_UP(ram_console_buffer_size,
\* ECC_BLOCK_SIZE) + 1) * ECC_SIZE, in size_t, on the capacity pre found by
\* the first subtraction.
EccCapacity(pre) ==
    (pre - (DIV_ROUND_UP(pre, ECC_BLOCK_SIZE) + 1) * ECC_SIZE) % SizeModulus

\* The second if (ram_console_buffer_size > buffer_size), of the ECC build.
EccRejected(n) == EccCapacity(DataCapacity(n)) > n

\* The header decode of ram_console_init: decode_rs8 on the header with the
\* segment after those of the data blocks; corrections land in the header.
DecodeHeader(b, cap) ==
    LET r == rs_decode_header(HeaderSymbols(b),
                              ParLoad(b.par, DIV_ROUND_UP(cap, ECC_BLOCK_SIZE)))
    IN  [buffer |-> [b EXCEPT !.sig = r.data[1], !.start = r.data[2],
                              !.size = r.data[3]],
         numerr |-> r.numerr]

\* The decode loop of ram_console_save_old: every block that starts below
\* buffer->size is decoded in place, its outcome counted in c.
RECURSIVE DecodeBlocks(_, _, _, _, _)
DecodeBlocks(b, cap, o, idx, c) ==
    IF o < b.size
    THEN LET size == IF o + ECC_BLOCK_SIZE > cap THEN cap - o
                     ELSE ECC_BLOCK_SIZE
             r    == rs_decode(Slice(b.data, o, o + size), ParLoad(b.par, idx))
             b1   == [b EXCEPT !.data = Memcpy(b.data, o, r.data, size)]
         IN  DecodeBlocks(b1, cap, o + ECC_BLOCK_SIZE, idx + 1,
                          CountOutcome(c, r.numerr))
    ELSE [buffer |-> b, counters |-> c]

\* The decimal digits of a number that is not negative.
RECURSIVE Decimal(_)
Decimal(n) ==
    IF n < 10 THEN <<48 + n>> ELSE Decimal(n \div 10) \o <<48 + (n % 10)>>

\* The characters of " Corrected bytes, ", of " unrecoverable blocks" with
\* its newline, and of "No errors detected" between two newlines.
TxtCorrected ==
    <<32, 67, 111, 114, 114, 101, 99, 116, 101, 100, 32, 98, 121, 116, 101,
      115, 44, 32>>
TxtUnrecoverable ==
    <<32, 117, 110, 114, 101, 99, 111, 118, 101, 114, 97, 98, 108, 101, 32,
      98, 108, 111, 99, 107, 115, 10>>
TxtNoErrors ==
    <<10, 78, 111, 32, 101, 114, 114, 111, 114, 115, 32, 100, 101, 116,
      101, 99, 116, 101, 100, 10>>

\* The line ram_console_save_old appends in the ECC build, cut to the 79
\* characters strbuf has room for.
Trailer(c) ==
    LET line == IF c.corrected # 0 \/ c.bad # 0
                THEN <<10>> \o Decimal(c.corrected) \o TxtCorrected
                            \o Decimal(c.bad) \o TxtUnrecoverable
                ELSE TxtNoErrors
    IN  SubSeq(line, 1, Min(Len(line), 79))

\* Variant: the two copies in the other order.
SaveOldCopy_Swapped(b) ==
    Slice(b.data, 0, b.start) \o Slice(b.data, b.start, b.size)

\* Variant: the second copy is missing.
SaveOldCopy_FirstOnly(b) == Slice(b.data, b.start, b.size)

\* The two memcpy calls of ram_console_save_old:
\* data[start .. size) and then data[0 .. start).
SaveOldCopy(b) ==
    Slice(b.data, b.start, b.size) \o Slice(b.data, 0, b.start)

\* Variant: the result of kmalloc is used unchecked.
ram_console_save_old_Unchecked(b, cap, c, fails) ==
    [log |-> SaveOldCopy(b), size |-> b.size, buffer |-> b, counters |-> c]

\* ram_console_save_old(buffer, NULL): the statics, the region and the two
\* counters afterwards.  The ECC build first decodes the blocks and formats
\* the trailer.  When kmalloc returns NULL the function returns before
\* touching ram_console_old_log and ram_console_old_log_size.
ram_console_save_old(b, cap, c, fails) ==
    LET d       == IF ecc THEN DecodeBlocks(b, cap, 0, 0, c)
                   ELSE [buffer |-> b, counters |-> c]
        trailer == IF ecc THEN Trailer(d.counters) ELSE << >>
    IN  IF fails
        THEN [log      |-> ram_console_old_log,
              size     |-> ram_console_old_log_size,
              buffer   |-> d.buffer,
              counters |-> d.counters]
        ELSE [log      |-> SaveOldCopy(d.buffer) \o trailer,
              size     |-> b.size + Len(trailer),
              buffer   |-> d.buffer,
              counters |-> d.counters]

\* Variant: the signature is left as found.
RearmHeader_KeepsSig(b) ==
    [b EXCEPT !.start = 0, !.size = 0]

\* Variant: start is not reset.
RearmHeader_KeepsStart(b) ==
    [b EXCEPT !.sig = RAM_CONSOLE_SIG, !.size = 0]

\* buffer->sig = RAM_CONSOLE_SIG; buffer->start = 0; buffer->size = 0;
RearmHeader(b) ==
    [b EXCEPT !.sig = RAM_CONSOLE_SIG, !.start = 0, !.size = 0]

\* ------------------------------------------------------------------ actions
\* ram_console_init(buffer, buffer_size, NULL), as ram_console_driver_probe
\* calls it, once per boot.
ram_console_init ==
    /\ pc = "boot"
    /\ pc' = "run"
    /\ IF CapacityRejected(buffer_size)
       THEN /\ ram_console_buffer_size' = DataCapacity(buffer_size)
            /\ UNCHANGED <<buffer, ram_console_old_log,
                           ram_console_old_log_size, registered, written,
                           total, last_count, ram_console_corrected_bytes,
                           ram_console_bad_blocks>>
       ELSE IF ecc /\ (EccRejected(buffer_size) \/ init_rs_fails)
       THEN /\ ram_console_buffer_size' = EccCapacity(DataCapacity(buffer_size))
            /\ UNCHANGED <<buffer, ram_console_old_log,
                           ram_console_old_log_size, registered, written,
                           total, last_count, ram_console_corrected_bytes,
                           ram_console_bad_blocks>>
       ELSE LET cap == IF ecc THEN EccCapacity(DataCapacity(buffer_size))
                       ELSE DataCapacity(buffer_size)
                h   == IF ecc THEN DecodeHeader(buffer, cap)
                       ELSE [buffer |-> buffer, numerr |-> 0]
                c   == CountOutcome([corrected |-> 0, bad |-> 0], h.numerr)
                old == IF HeaderValid(h.buffer, cap)
                       THEN ram_console_save_old(h.buffer, cap, c,
                                                 kmalloc_fails)
                       ELSE [log      |-> ram_console_old_log,
                             size     |-> ram_console_old_log_size,
                             buffer   |-> h.buffer,
                             counters |-> c]
            IN  /\ ram_console_buffer_size' = cap
                /\ ram_console_old_log' = old.log
                /\ ram_console_old_log_size' = old.size
                /\ ram_console_corrected_bytes' = old.counters.corrected
                /\ ram_console_bad_blocks' = old.counters.bad
                /\ buffer' = RearmHeader(old.buffer)
                /\ registered' = TRUE
                /\ written' = << >>
                /\ total' = 0
                /\ last_count' = 0
    /\ UNCHANGED <<buffer_size, kmalloc_fails, prev_written, ecc,
                   init_rs_fails, flips, read_vars, crash_vars, charger_vars>>

\* ram_console_write(console, s, Len(s)): the console framework calls it,
\* one call at a time, only for a registered console.
ram_console_write(s) ==
    /\ pc = "run"
    /\ registered
    /\ last_count' = Len(s)
    /\ total' = Min(total + Len(s), ram_console_buffer_size + 1)
    /\ written' = Last(written \o s, ram_console_buffer_size)
    /\ buffer' = WriteBuffer(buffer, ram_console_buffer_size, s)
    /\ UNCHANGED <<buffer_size, ram_console_buffer_size, ram_console_old_log,
                   ram_console_old_log_size, registered, pc, kmalloc_fails,
                   prev_written, ecc_vars, read_vars, crash_vars, charger_vars>>

\* A warm reboot: the region keeps its bytes, the statics are zero again.
\* prev_written keeps what the boot that ends here wrote, NULL when its
\* console was never registered.
Reboot ==
    /\ pc = "run"
    /\ pc' = "boot"
    /\ ram_console_buffer_size' = 0
    /\ ram_console_old_log' = NULL
    /\ ram_console_old_log_size' = 0
    /\ registered' = FALSE
    /\ kmalloc_fails' \in BOOLEAN
    /\ init_rs_fails' \in (IF ecc THEN BOOLEAN ELSE {FALSE})
    /\ ram_console_corrected_bytes' = 0
    /\ ram_console_bad_blocks' = 0
    /\ prev_written' = IF registered THEN written ELSE NULL
    /\ UNCHANGED <<buffer_size, buffer, written, total, last_count, ecc,
                   flips, read_vars, crash_vars, charger_vars>>

\* ------------------------------------------------------------ specification
\* The first boot finds whatever the region holds: any header, any data.
Init ==
    /\ buffer_size \in BufferSizes
    /\ buffer \in [sig   : {RAM_CONSOLE_SIG, BadSig},
                   start : 0..(MaxCap + 1),
                   size  : 0..(MaxCap + 1),
                   data  : [0..(DataLen(buffer_size) - 1) -> Byte],
                   par   : {<< >>}]
    /\ ram_console_buffer_size = 0
    /\ ram_console_old_log = NULL
    /\ ram_console_old_log_size = 0
    /\ registered = FALSE
    /\ pc = "boot"
    /\ kmalloc_fails \in BOOLEAN
    /\ written = << >>
    /\ total = 0
    /\ last_count = 0
    /\ prev_written = NULL
    /\ ecc = FALSE
    /\ init_rs_fails = FALSE
    /\ ram_console_corrected_bytes = 0
    /\ ram_console_bad_blocks = 0
    /\ flips = 0
    /\ NoReader
    /\ NoWriteInFlight
    /\ NoCharger

Next ==
    \/ ram_console_init
    \/ \E s \in Strings : ram_console_write(s)
    \/ Reboot

Spec == Init /\ [][Next]_vars

\* --------------------------------------------------------- the ECC build
\* The data capacities explored in the ECC build: one whole block, and one
\* block followed by a partial one.
EccMaxCap == ECC_BLOCK_SIZE + 1
EccCaps == {ECC_BLOCK_SIZE, EccMaxCap}
\* The smallest total size that leaves a data area of c bytes.
EccTotal(c) ==
    CHOOSE n \in HeaderSize..(HeaderSize + ECC_BLOCK_SIZE * (c + 2)) :
        /\ EccCapacity(n - HeaderSize) = c
        /\ \A m \in HeaderSize..(n - 1) : EccCapacity(m - HeaderSize) # c
\* The total sizes explored: one too small for the header, one too small for
\* the parity table, and one for each of the capacities.
EccBufferSizes ==
    {HeaderSize - 1, HeaderSize + 1} \cup {EccTotal(c) : c \in EccCaps}
\* The strings written in the ECC build: runs of one byte value.
EccStrings == {[i \in 1..n |-> c] : c \in Byte, n \in 0..MaxCount}
\* Most symbols of the region that get corrupted in one behaviour: enough to
\* make one unit uncorrectable and another one corrected.
MaxFlips == ECC_T + 2

\* Whether ram_console_init returns at one of its two size tests.
Rejected(n) == CapacityRejected(n) \/ (ecc /\ EccRejected(n))

\* The parity segments the region of total size n has room for.
NumSegments(n) ==
    IF CapacityRejected(n) \/ EccRejected(n) THEN 0
    ELSE DIV_ROUND_UP(DataCapacity(n), ECC_BLOCK_SIZE) + 1

\* Memory corruption while the machine is down: one data byte or one header
\* field changes (a field to the next of the values explored).
Corrupt ==
    /\ pc = "boot"
    /\ ecc
    /\ flips < MaxFlips
    /\ flips' = flips + 1
    /\ \/ \E i \in DOMAIN buffer.data :
              buffer' = [buffer EXCEPT !.data[i] = 1 - @]
       \/ buffer' = [buffer EXCEPT
                        !.sig = IF @ = BadSig THEN RAM_CONSOLE_SIG ELSE BadSig]
       \/ buffer' = [buffer EXCEPT !.start = (@ + 1) % (EccMaxCap + 2)]
       \/ buffer' = [buffer EXCEPT !.size = (@ + 1) % (EccMaxCap + 2)]
    /\ UNCHANGED <<buffer_size, ram_console_buffer_size, ram_console_old_log,
                   ram_console_old_log_size, registered, pc, kmalloc_fails,
                   written, total, last_count, prev_written, ecc,
                   init_rs_fails, ram_console_corrected_bytes,
                   ram_console_bad_blocks, read_vars, crash_vars, charger_vars>>

\* The first boot of the ECC build finds cold memory: zeroed data, a header
\* from a few, parity that this code never computed.
EccInit ==
    /\ ecc = TRUE
    /\ buffer_size \in EccBufferSizes
    /\ buffer \in [sig   : {RAM_CONSOLE_SIG, BadSig},
                   start : 0..1,
                   size  : {0, 1, EccMaxCap},
                   data  : [0..(IF Rejected(buffer_size)
                                THEN DataLen(buffer_size)
                                ELSE EccCapacity(DataCapacity(buffer_size)))
                               - 1 -> {0}],
                   par   : {[i \in 0..(NumSegments(buffer_size) - 1)
                                |-> NoParity]}]
    /\ ram_console_buffer_size = 0
    /\ ram_console_old_log = NULL
    /\ ram_console_old_log_size = 0
    /\ registered = FALSE
    /\ pc = "boot"
    /\ kmalloc_fails \in BOOLEAN
    /\ init_rs_fails \in BOOLEAN
    /\ written = << >>
    /\ total = 0
    /\ last_count = 0
    /\ prev_written = NULL
    /\ ram_console_corrected_bytes = 0
    /\ ram_console_bad_blocks = 0
    /\ flips = 0
    /\ NoReader
    /\ NoWriteInFlight
    /\ NoCharger

EccNext ==
    \/ ram_console_init
    \/ \E s \in EccStrings : ram_console_write(s)
    \/ Reboot
    \/ Corrupt

SpecEcc == EccInit /\ [][EccNext]_vars

\* ---------------------------------------------------- reading the old log
\* count = min(len, (size_t)(ram_console_old_log_size - pos))
ReadCount(len, pos) == Min(len, ram_console_old_log_size - pos)

\* Variant: the copy starts at the head of the log whatever the position.
ReadBytes_FromStart(pos, count) == SubSeq(ram_console_old_log, 1, count)

\* Variant: the copy is taken from the live data area.
ReadBytes_Live(pos, count) ==
    [i \in 1..count |->
        IF pos + i - 1 \in DOMAIN buffer.data THEN buffer.data[pos + i - 1]
        ELSE 0]

\* copy_to_user(buf, ram_console_old_log + pos, count): the bytes copied.
ReadBytes(pos, count) == SubSeq(ram_console_old_log, pos + 1, pos + count)

\* Variant: the position is left where it was.
NextOffset_Stays(pos, count) == pos

\* *offset += count
NextOffset(pos, count) == pos + count

\* The rest of ram_console_late_init, after platform_driver_register has run
\* the probe: /proc/last_kmsg is created when there is an old log; when
\* proc_create_data fails the old log is freed.
ram_console_late_init(proc_fails) ==
    /\ pc = "run"
    /\ last_kmsg = "pending"
    /\ IF ram_console_old_log = NULL
       THEN /\ last_kmsg' = "absent"
            /\ UNCHANGED <<ram_console_old_log, snapshot>>
       ELSE IF proc_fails
       THEN /\ last_kmsg' = "absent"
            /\ ram_console_old_log' = NULL
            /\ UNCHANGED snapshot
       ELSE /\ last_kmsg' = "present"
            /\ snapshot' = ram_console_old_log
            /\ UNCHANGED ram_console_old_log
    /\ UNCHANGED <<buffer_size, buffer, ram_console_buffer_size,
                   ram_console_old_log_size, registered, pc, kmalloc_fails,
                   written, total, last_count, prev_written, ecc_vars,
                   offset, ret, ubuf, origin, acc, crash_vars, charger_vars>>

\* The reader sets its file position to o (open, lseek, pread).
lseek(o) ==
    /\ pc = "run"
    /\ last_kmsg = "present"
    /\ offset' = o
    /\ origin' = o
    /\ acc' = << >>
    /\ UNCHANGED <<buffer_size, buffer, ram_console_buffer_size,
                   ram_console_old_log, ram_console_old_log_size, registered,
                   pc, kmalloc_fails, written, total, last_count,
                   prev_written, ecc_vars, last_kmsg, ret, ubuf, snapshot,
                   crash_vars, charger_vars>>

\* ram_console_read_old(file, buf, len, &offset); fault says whether
\* copy_to_user fails.
ram_console_read_old(len, fault) ==
    /\ pc = "run"
    /\ last_kmsg = "present"
    /\ LET pos   == offset
           count == ReadCount(len, pos)
       IN  IF pos >= ram_console_old_log_size
           THEN /\ ret' = 0
                /\ ubuf' = << >>
                /\ UNCHANGED <<offset, acc>>
           ELSE IF fault /\ count > 0
           THEN /\ ret' = -EFAULT
                /\ ubuf' = << >>
                /\ UNCHANGED <<offset, acc>>
           ELSE /\ ret' = count
                /\ ubuf' = ReadBytes(pos, count)
                /\ offset' = NextOffset(pos, count)
                /\ acc' = acc \o ReadBytes(pos, count)
    /\ UNCHANGED <<buffer_size, buffer, ram_console_buffer_size,
                   ram_console_old_log, ram_console_old_log_size, registered,
                   pc, kmalloc_fails, written, total, last_count,
                   prev_written, ecc_vars, last_kmsg, origin, snapshot,
                   crash_vars, charger_vars>>

\* The live log takes single bytes while the old one is read.
ReadStrings == {s \in Strings : Len(s) = 1}

\* One boot over a region of the largest capacity that holds any header and
\* any data.
ReadInit ==
    /\ buffer_size = HeaderSize + MaxCap
    /\ buffer \in [sig   : {RAM_CONSOLE_SIG, BadSig},
                   start : 0..MaxCap,
                   size  : 0..MaxCap,
                   data  : [0..(MaxCap - 1) -> Byte],
                   par   : {<< >>}]
    /\ ram_console_buffer_size = 0
    /\ ram_console_old_log = NULL
    /\ ram_console_old_log_size = 0
    /\ registered = FALSE
    /\ pc = "boot"
    /\ kmalloc_fails \in BOOLEAN
    /\ written = << >>
    /\ total = 0
    /\ last_count = 0
    /\ prev_written = NULL
    /\ ecc = FALSE
    /\ init_rs_fails = FALSE
    /\ ram_console_corrected_bytes = 0
    /\ ram_console_bad_blocks = 0
    /\ flips = 0
    /\ NoReader
    /\ NoWriteInFlight
    /\ NoCharger

ReadNext ==
    \/ ram_console_init
    \/ \E proc_fails \in BOOLEAN : ram_console_late_init(proc_fails)
    \/ \E s \in ReadStrings : ram_console_write(s)
    \/ \E o \in 0..(ram_console_old_log_size + 1) : lseek(o)
    \/ \E len \in 0..MaxRead, fault \in BOOLEAN :
           ram_console_read_old(len, fault)

SpecRead == ReadInit /\ [][ReadNext]_vars

\* ------------------------------------- ram_console_write, store by store
\* What the stores of a write leave alone.
write_frame ==
    <<buffer_size, ram_console_buffer_size, ram_console_old_log,
      ram_console_old_log_size, registered, pc, kmalloc_fails, prev_written,
      ecc_vars, read_vars, charger_vars>>

\* ram_console_write is entered: the clamp and the test rem < count, which
\* store nothing.
write_begin(s) ==
    /\ pc = "run"
    /\ registered
    /\ ~ecc
    /\ wpc = "idle"
    /\ LET cap == ram_console_buffer_size
           c   == ClampString(s, cap)
           rem == cap - buffer.start
       IN  /\ w_s' = c
           /\ w_count' = Len(c)
           /\ wpc' = IF (rem % SizeModulus) < Len(c) THEN "copy1"
                     ELSE "copy2"
    /\ w_pre' = buffer
    /\ cut' = FALSE
    /\ last_count' = Len(s)
    /\ total' = Min(total + Len(s), ram_console_buffer_size + 1)
    /\ written' = Last(written \o s, ram_console_buffer_size)
    /\ UNCHANGED <<buffer, write_frame>>

\* ram_console_update(s, rem) of the wrap branch; then s += rem.
write_copy1 ==
    /\ wpc = "copy1"
    /\ LET rem == ram_console_buffer_size - buffer.start
       IN  /\ buffer' = ram_console_update(buffer, w_s, rem)
           /\ w_s' = SubSeq(w_s, rem + 1, Len(w_s))
    /\ wpc' = "start0"
    /\ UNCHANGED <<write_frame, written, total, last_count, w_pre, w_count,
                   cut>>

\* buffer->start = 0
write_start0 ==
    /\ wpc = "start0"
    /\ buffer' = [buffer EXCEPT !.start = 0]
    /\ wpc' = "sizecap"
    /\ UNCHANGED <<write_frame, written, total, last_count, w_s, w_pre,
                   w_count, cut>>

\* buffer->size = ram_console_buffer_size
write_sizecap ==
    /\ wpc = "sizecap"
    /\ buffer' = [buffer EXCEPT !.size = ram_console_buffer_size]
    /\ wpc' = "copy2"
    /\ UNCHANGED <<write_frame, written, total, last_count, w_s, w_pre,
                   w_count, cut>>

\* ram_console_update(s, count) after the wrap branch.
write_copy2 ==
    /\ wpc = "copy2"
    /\ buffer' = ram_console_update(buffer, w_s, Len(w_s))
    /\ wpc' = "startadd"
    /\ UNCHANGED <<write_frame, written, total, last_count, w_s, w_pre,
                   w_count, cut>>

\* buffer->start += count
write_startadd ==
    /\ wpc = "startadd"
    /\ buffer' = [buffer EXCEPT !.start = @ + Len(w_s)]
    /\ wpc' = "sizeadd"
    /\ UNCHANGED <<write_frame, written, total, last_count, w_s, w_pre,
                   w_count, cut>>

\* if (buffer->size < ram_console_buffer_size) buffer->size += count; the
\* write returns.
write_sizeadd ==
    /\ wpc = "sizeadd"
    /\ buffer' = [buffer EXCEPT
                     !.size = NextSize(@, ram_console_buffer_size, Len(w_s))]
    /\ wpc' = "idle"
    /\ w_s' = << >>
    /\ UNCHANGED <<write_frame, written, total, last_count, w_pre, w_count,
                   cut>>

\* The machine goes down, maybe inside a write, maybe inside one of its
\* copies, of which the first k bytes have landed.  The region keeps what
\* was stored; the statics are zero again when it comes back.
Crash ==
    /\ pc = "run"
    /\ registered
    /\ ~ecc
    /\ pc' = "boot"
    /\ IF wpc = "copy1"
       THEN \E k \in 0..(ram_console_buffer_size - buffer.start) :
               buffer' = ram_console_update(buffer, w_s, k)
       ELSE IF wpc = "copy2"
       THEN \E k \in 0..Len(w_s) :
               buffer' = ram_console_update(buffer, w_s, k)
       ELSE UNCHANGED buffer
    /\ cut' = (wpc # "idle")
    /\ wpc' = "idle"
    /\ w_s' = << >>
    /\ ram_console_buffer_size' = 0
    /\ ram_console_old_log' = NULL
    /\ ram_console_old_log_size' = 0
    /\ registered' = FALSE
    /\ kmalloc_fails' \in BOOLEAN
    /\ UNCHANGED <<buffer_size, written, total, last_count, prev_written,
                   ecc_vars, read_vars, w_pre, w_count, charger_vars>>

\* Cold memory in a region of one of the capacities 1..MaxCap.
CrashInit ==
    /\ buffer_size \in {HeaderSize + c : c \in 1..MaxCap}
    /\ buffer = [sig |-> BadSig, start |-> 0, size |-> 0,
                 data |-> [i \in 0..(DataLen(buffer_size) - 1) |-> 0],
                 par  |-> << >>]
    /\ ram_console_buffer_size = 0
    /\ ram_console_old_log = NULL
    /\ ram_console_old_log_size = 0
    /\ registered = FALSE
    /\ pc = "boot"
    /\ kmalloc_fails \in BOOLEAN
    /\ written = << >>
    /\ total = 0
    /\ last_count = 0
    /\ prev_written = NULL
    /\ ecc = FALSE
    /\ init_rs_fails = FALSE
    /\ ram_console_corrected_bytes = 0
    /\ ram_console_bad_blocks = 0
    /\ flips = 0
    /\ NoReader
    /\ NoWriteInFlight
    /\ NoCharger

CrashNext ==
    \/ ram_console_init
    \/ \E s \in Strings : write_begin(s)
    \/ write_copy1
    \/ write_start0
    \/ write_sizecap
    \/ write_copy2
    \/ write_startadd
    \/ write_sizeadd
    \/ Crash

SpecCrash == CrashInit /\ [][CrashNext]_vars

\* ------------------------------------------------- the spec's example case
\* The example's region: 1024 bytes, read as the region's total size and as
\* its data capacity (a region of 1024 + header bytes).
ExTotal == 2^10
ExBufferSizes == {ExTotal, ExTotal + HeaderSize}
\* The example's characters.
Char == [A |-> 65, B |-> 66]
\* n copies of c.
Rep(c, n) == [i \in 1..n |-> c]
\* The example's strings, and the same lengths of the other character.
ExStrings ==
    {Rep(c, n) : c \in {Char.A, Char.B},
                 n \in {4, ExTotal - HeaderSize, ExTotal}}
\* Writes of the example stop once this many bytes were written in a boot.
ExMaxTotal == 5

\* Cold memory: zeroes, no signature.
ExInit ==
    /\ buffer_size \in ExBufferSizes
    /\ buffer = [sig |-> BadSig, start |-> 0, size |-> 0,
                 data |-> [i \in 0..(DataLen(buffer_size) - 1) |-> 0],
                 par  |-> << >>]
    /\ ram_console_buffer_size = 0
    /\ ram_console_old_log = NULL
    /\ ram_console_old_log_size = 0
    /\ registered = FALSE
    /\ pc = "boot"
    /\ kmalloc_fails \in BOOLEAN
    /\ written = << >>
    /\ total = 0
    /\ last_count = 0
    /\ prev_written = NULL
    /\ ecc = FALSE
    /\ init_rs_fails = FALSE
    /\ ram_console_corrected_bytes = 0
    /\ ram_console_bad_blocks = 0
    /\ flips = 0
    /\ NoReader
    /\ NoWriteInFlight
    /\ NoCharger

ExNext ==
    \/ ram_console_init
    \/ \E s \in ExStrings : total < ExMaxTotal /\ ram_console_write(s)
    \/ Reboot

SpecEx == ExInit /\ [][ExNext]_vars

\* ------------------------------------------------ the max77693 charger
\* Most cable events in one behaviour.
MaxEvents == 3

\* The two charging cables the driver listens to.
Cables == {"SDP", "DCP"}

\* The three sysfs attributes of probe, in the order it creates them.
Attrs == <<"fast_charge_timer", "top_off_threshold_current", "top_off_timer">>
CreateStep == <<"create_file_1", "create_file_2", "create_file_3">>

\* chg is devm memory: it exists from probe's devm_kzalloc until probe has
\* returned an error or remove has returned.
ChgLive == ppc \notin {"unbound", "failed", "removed"}

\* The fields of chg that the worker reads keep their value while chg
\* exists; once it is freed a read gives any value.
ReadFreed(v) == IF ChgLive THEN {v} ELSE BOOLEAN

\* What the console state is while the charger driver is explored.
ram_console_idle ==
    /\ buffer_size = HeaderSize
    /\ buffer = [sig |-> BadSig, start |-> 0, size |-> 0,
                 data |-> << >>, par |-> << >>]
    /\ ram_console_buffer_size = 0
    /\ ram_console_old_log = NULL
    /\ ram_console_old_log_size = 0
    /\ registered = FALSE
    /\ pc = "boot"
    /\ kmalloc_fails = FALSE
    /\ written = << >>
    /\ total = 0
    /\ last_count = 0
    /\ prev_written = NULL
    /\ ecc = FALSE
    /\ init_rs_fails = FALSE
    /\ ram_console_corrected_bytes = 0
    /\ ram_console_bad_blocks = 0
    /\ flips = 0
    /\ NoReader
    /\ NoWriteInFlight

\* max77693_charger_probe up to INIT_WORK: the allocation of chg,
\* max77693_dt_init, devm_regulator_get and extcon_get_extcon_dev, any of
\* which may fail and make probe return; then cable.connected = false.
probe_begin(fail) ==
    /\ ppc = "unbound"
    /\ IF fail
       THEN ppc' = "failed" /\ UNCHANGED cable_connected
       ELSE ppc' = "register_sdp" /\ cable_connected' = FALSE
    /\ UNCHANGED <<ram_console_vars, charger, notifiers, files, extcon,
                   work_pending, wk, old_connected, regu_enabled,
                   regu_failed, notified, events>>

\* extcon_register_notifier(edev, EXTCON_CHG_USB_SDP, &chg->cable.nb);
\* probe returns its error.
probe_register_sdp(fail) ==
    /\ ppc = "register_sdp"
    /\ IF fail
       THEN ppc' = "failed" /\ UNCHANGED notifiers
       ELSE ppc' = "register_dcp" /\ notifiers' = notifiers \cup {"SDP"}
    /\ UNCHANGED <<ram_console_vars, cable_connected, charger, files, extcon,
                   work_pending, wk, old_connected, regu_enabled,
                   regu_failed, notified, events>>

\* extcon_register_notifier(edev, EXTCON_CHG_USB_DCP, &chg->cable.nb);
\* on an error the SDP notifier is unregistered and probe returns.
probe_register_dcp(fail) ==
    /\ ppc = "register_dcp"
    /\ IF fail
       THEN ppc' = "failed" /\ notifiers' = notifiers \ {"SDP"}
       ELSE ppc' = "reg_init" /\ notifiers' = notifiers \cup {"DCP"}
    /\ UNCHANGED <<ram_console_vars, cable_connected, charger, files, extcon,
                   work_pending, wk, old_connected, regu_enabled,
                   regu_failed, notified, events>>

\* ret = max77693_reg_init(chg); if (ret) return ret;
probe_reg_init(fail) ==
    /\ ppc = "reg_init"
    /\ ppc' = IF fail THEN "failed" ELSE CreateStep[1]
    /\ UNCHANGED <<ram_console_vars, cable_connected, charger, notifiers,
                   files, extcon, work_pending, wk, old_connected,
                   regu_enabled, regu_failed, notified, events>>

\* The i-th device_create_file of probe; on an error, goto err.
probe_device_create_file(i, fail) ==
    /\ ppc = CreateStep[i]
    /\ IF fail
       THEN ppc' = "err" /\ UNCHANGED files
       ELSE /\ ppc' = IF i < Len(Attrs) THEN CreateStep[i + 1]
                      ELSE "power_supply_register"
            /\ files' = files \cup {Attrs[i]}
    /\ UNCHANGED <<ram_console_vars, cable_connected, charger, notifiers,
                   extcon, work_pending, wk, old_connected, regu_enabled,
                   regu_failed, notified, events>>

\* chg->charger = power_supply_register(...); an error pointer sends probe
\* to err, otherwise probe returns 0.
probe_power_supply_register(fail) ==
    /\ ppc = "power_supply_register"
    /\ IF fail
       THEN ppc' = "err" /\ charger' = "ERR"
       ELSE ppc' = "bound" /\ charger' = "registered"
    /\ UNCHANGED <<ram_console_vars, cable_connected, notifiers, files,
                   extcon, work_pending, wk, old_connected, regu_enabled,
                   regu_failed, notified, events>>

\* The err label of probe: the three attributes are removed, both
\* notifiers unregistered, and probe returns the error.
probe_err ==
    /\ ppc = "err"
    /\ ppc' = "failed"
    /\ files' = {}
    /\ notifiers' = {}
    /\ UNCHANGED <<ram_console_vars, cable_connected, charger, extcon,
                   work_pending, wk, old_connected, regu_enabled,
                   regu_failed, notified, events>>

\* max77693_charger_remove: the three device_remove_file calls.
remove_files ==
    /\ ppc = "bound"
    /\ ppc' = "unregister_sdp"
    /\ files' = {}
    /\ UNCHANGED <<ram_console_vars, cable_connected, charger, notifiers,
                   extcon, work_pending, wk, old_connected, regu_enabled,
                   regu_failed, notified, events>>

\* max77693_charger_remove: extcon_unregister_notifier for the cable id.
remove_unregister(id) ==
    /\ ppc = (IF id = "SDP" THEN "unregister_sdp" ELSE "unregister_dcp")
    /\ ppc' = (IF id = "SDP" THEN "unregister_dcp"
               ELSE "power_supply_unregister")
    /\ notifiers' = notifiers \ {id}
    /\ UNCHANGED <<ram_console_vars, cable_connected, charger, files, extcon,
                   work_pending, wk, old_connected, regu_enabled,
                   regu_failed, notified, events>>

\* max77693_charger_remove: power_supply_unregister(chg->charger); return 0.
\* The work is not cancelled.
remove_power_supply_unregister ==
    /\ ppc = "power_supply_unregister"
    /\ ppc' = "removed"
    /\ charger' = "unregistered"
    /\ UNCHANGED <<ram_console_vars, cable_connected, notifiers, files,
                   extcon, work_pending, wk, old_connected, regu_enabled,
                   regu_failed, notified, events>>

\* The cable id is plugged or unplugged: extcon calls the notifiers of that
\* cable, and max77693_handle_cable_evt does schedule_work(&chg->cable.work),
\* which changes nothing when the work is queued already.  A notifier left
\* registered in freed memory may or may not get that far.
cable_event(id) ==
    /\ events < MaxEvents
    /\ events' = events + 1
    /\ extcon' = [extcon EXCEPT ![id] = ~@]
    /\ work_pending' \in
          (IF id \notin notifiers THEN {work_pending}
           ELSE IF ChgLive THEN {TRUE}
           ELSE {TRUE, work_pending})
    /\ UNCHANGED <<ram_console_vars, ppc, cable_connected, charger,
                   notifiers, files, wk, old_connected, regu_enabled,
                   regu_failed, notified>>

\* The workqueue starts max77693_extcon_evt_worker, one run at a time:
\* old_connected = chg->cable.connected.
worker_begin ==
    /\ wk = "idle"
    /\ work_pending
    /\ work_pending' = FALSE
    /\ wk' = "get_sdp"
    /\ old_connected' \in ReadFreed(cable_connected)
    /\ regu_failed' = FALSE
    /\ UNCHANGED <<ram_console_vars, ppc, cable_connected, charger,
                   notifiers, files, extcon, regu_enabled, notified, events>>

\* The worker has found the cable state c: chg->cable.connected = c, and
\* the run is over when that is what it was (if (!changed) return).
Observe(c) ==
    /\ cable_connected' = c
    /\ wk' = IF old_connected # c THEN "regulator" ELSE "idle"

\* extcon_get_state(edev, EXTCON_CHG_USB_SDP), the left operand of ||.
worker_get_sdp ==
    /\ wk = "get_sdp"
    /\ IF extcon.SDP
       THEN Observe(TRUE)
       ELSE wk' = "get_dcp" /\ UNCHANGED cable_connected
    /\ UNCHANGED <<ram_console_vars, ppc, charger, notifiers, files, extcon,
                   work_pending, old_connected, regu_enabled, regu_failed,
                   notified, events>>

\* extcon_get_state(edev, EXTCON_CHG_USB_DCP), the right operand of ||.
worker_get_dcp ==
    /\ wk = "get_dcp"
    /\ Observe(extcon.DCP)
    /\ UNCHANGED <<ram_console_vars, ppc, charger, notifiers, files, extcon,
                   work_pending, old_connected, regu_enabled, regu_failed,
                   notified, events>>

\* Variant: the regulator is switched the other way round.
max77693_enable_charger_Inverted(enabled, enable, fail_limit, fail_switch) ==
    IF fail_limit \/ fail_switch THEN [ret |-> -1, enabled |-> enabled]
    ELSE [ret |-> 0, enabled |-> ~enable]

\* max77693_enable_charger(chg, enable) when the regulator is enabled or
\* not: regulator_set_current_limit, then regulator_enable or
\* regulator_disable; the first call that fails ends it.  Gives the value
\* returned and the regulator afterwards.
max77693_enable_charger(enabled, enable, fail_limit, fail_switch) ==
    IF fail_limit \/ fail_switch THEN [ret |-> -1, enabled |-> enabled]
    ELSE [ret |-> 0, enabled |-> enable]

\* The worker after a change: regulator_is_enabled, then the charger is
\* disabled when it is enabled and no cable is connected, enabled when it is
\* not and a cable is connected, left alone otherwise.
worker_regulator(fail_limit, fail_switch) ==
    /\ wk = "regulator"
    /\ wk' = "notify"
    /\ \E connected \in ReadFreed(cable_connected) :
          LET is_charger_enabled == regu_enabled
              r == IF is_charger_enabled /\ ~connected
                   THEN max77693_enable_charger(regu_enabled, FALSE,
                                                fail_limit, fail_switch)
                   ELSE IF ~is_charger_enabled /\ connected
                   THEN max77693_enable_charger(regu_enabled, TRUE,
                                                fail_limit, fail_switch)
                   ELSE [ret |-> 0, enabled |-> regu_enabled]
          IN  /\ regu_enabled' = r.enabled
              /\ regu_failed' = (r.ret < 0)
    /\ UNCHANGED <<ram_console_vars, ppc, cable_connected, charger,
                   notifiers, files, extcon, work_pending, old_connected,
                   notified, events>>

\* if (changed) power_supply_changed(chg->charger).  The call returns when
\* the power supply is registered; it dereferences a null or an error
\* pointer otherwise, or a power supply that was freed, which may go
\* either way.
worker_notify ==
    /\ wk = "notify"
    /\ notified' = notified + 1
    /\ wk' \in (IF charger = "registered" THEN {"idle"}
                ELSE IF charger = "unregistered" THEN {"idle", "oops"}
                ELSE {"oops"})
    /\ UNCHANGED <<ram_console_vars, ppc, cable_connected, charger,
                   notifiers, files, extcon, work_pending, old_connected,
                   regu_enabled, regu_failed, events>>

\* A run on a chg that was freed may fault at any of its accesses.
worker_oops ==
    /\ wk \notin {"idle", "oops"}
    /\ ~ChgLive
    /\ wk' = "oops"
    /\ UNCHANGED <<ram_console_vars, ppc, cable_connected, charger,
                   notifiers, files, extcon, work_pending, old_connected,
                   regu_enabled, regu_failed, notified, events>>

\* The driver is about to be probed; the cables and the regulator are in
\* any state.
ChargerInit ==
    /\ ram_console_idle
    /\ ppc = "unbound"
    /\ cable_connected = FALSE
    /\ charger = "NULL"
    /\ notifiers = {}
    /\ files = {}
    /\ extcon \in [Cables -> BOOLEAN]
    /\ work_pending = FALSE
    /\ wk = "idle"
    /\ old_connected = FALSE
    /\ regu_enabled \in BOOLEAN
    /\ regu_failed = FALSE
    /\ notified = 0
    /\ events = 0

ChargerNext ==
    \/ \E fail \in BOOLEAN : probe_begin(fail)
    \/ \E fail \in BOOLEAN : probe_register_sdp(fail)
    \/ \E fail \in BOOLEAN : probe_register_dcp(fail)
    \/ \E fail \in BOOLEAN : probe_reg_init(fail)
    \/ \E i \in 1..Len(Attrs), fail \in BOOLEAN :
          probe_device_create_file(i, fail)
    \/ \E fail \in BOOLEAN : probe_power_supply_register(fail)
    \/ probe_err
    \/ remove_files
    \/ \E id \in Cables : remove_unregister(id)
    \/ remove_power_supply_unregister
    \/ \E id \in Cables : cable_event(id)
    \/ worker_begin
    \/ worker_get_sdp
    \/ worker_get_dcp
    \/ \E fail_limit, fail_switch \in BOOLEAN :
          worker_regulator(fail_limit, fail_switch)
    \/ worker_notify
    \/ worker_oops

SpecCharger == ChargerInit /\ [][ChargerNext]_vars

\* =================================================================== claims
\* The live header and data capacity, as the claims name them.
start == buffer.start
size == buffer.size
data_capacity == ram_console_buffer_size

\* The logical content of a region: data[start .. size) then data[0 .. start).
Logical(b) == Slice(b.data, b.start, b.size) \o Slice(b.data, 0, b.start)

\* A step of ram_console_init, and a step of ram_console_write.
InitStep == pc = "boot" /\ pc' = "run"
WriteStep == pc = "run" /\ pc' = "run" /\ registered

\* C1 (as amended): reboot round trip.  When a boot whose console was
\* registered has written any sequence of strings and the next boot's
\* allocation of the destination buffer succeeds, the log that boot's
\* initialization recovers is the last min(total, data_capacity) bytes the
\* earlier boot wrote, oldest first, and its recorded size is their number.
C1_RebootRoundTrip ==
    (pc = "run" /\ prev_written # NULL /\ ~kmalloc_fails) =>
        /\ ram_console_old_log = prev_written
        /\ ram_console_old_log_size = Len(prev_written)

\* C1 as written: the same with no condition on the allocation.
C1_AsWritten ==
    (pc = "run" /\ prev_written # NULL) =>
        /\ ram_console_old_log = prev_written
        /\ ram_console_old_log_size = Len(prev_written)

\* C1 witness: a second boot has recovered a full log holding both byte values.
C1_Witness ==
    /\ pc = "run" /\ registered /\ ~kmalloc_fails
    /\ prev_written # NULL
    /\ data_capacity >= 2
    /\ Len(prev_written) = data_capacity
    /\ \E i, j \in 1..Len(prev_written) : prev_written[i] # prev_written[j]
    /\ ram_console_old_log = prev_written

\* C2: wrap correctness.  Once more than data_capacity bytes have been written
\* since initialization, data[start .. data_capacity) followed by
\* data[0 .. start) is exactly the last data_capacity bytes written, in order.
C2_WrapCorrectness ==
    (registered /\ total > data_capacity) =>
        /\ Len(written) = data_capacity
        /\ Slice(buffer.data, start, data_capacity)
              \o Slice(buffer.data, 0, start) = written

\* C2 witness: the log has wrapped and start is strictly inside the data area.
C2_Witness ==
    /\ registered /\ total > data_capacity
    /\ 0 < start /\ start < data_capacity
    /\ \E i, j \in 1..Len(written) : written[i] # written[j]

\* C3: after any sequence of writes, size is min(total written,
\* data_capacity) and data[start .. size) followed by data[0 .. start) is the
\* most recent size bytes written, in write order.
C3_LogicalContent ==
    registered =>
        /\ size = Min(total, data_capacity)
        /\ Len(written) = size
        /\ Logical(buffer) = written

\* C3 witness: an unwrapped log of two different bytes, short of the capacity.
C3_Witness ==
    /\ registered
    /\ total = 2 /\ total < data_capacity
    /\ written[1] # written[2]

\* C4: after every write of n bytes (n after clamping), start is
\* (previous start + n) mod data_capacity, so start < data_capacity.
C4_StartModCapacity ==
    [][(WriteStep /\ data_capacity > 0) =>
          /\ start' = (start + Min(last_count', data_capacity)) % data_capacity
          /\ 0 <= start' /\ start' < data_capacity]_vars

\* C5: after every write of n bytes size is min(previous size + n,
\* data_capacity); so size never decreases between initializations and
\* 0 <= size <= data_capacity in every state after initialization.
C5_SizeSaturates ==
    /\ [][WriteStep =>
            /\ size' = Min(size + last_count', data_capacity)
            /\ size' >= size]_vars
    /\ [](registered => (0 <= size /\ size <= data_capacity))

\* C5 witness: a write has made size saturate at a capacity of two or more.
C5_Witness ==
    /\ registered /\ last_count > 0
    /\ data_capacity >= 2 /\ size = data_capacity /\ total > data_capacity

\* C7: a single write of n > data_capacity bytes leaves size == data_capacity
\* and the logical content, which then spans the whole data area, exactly the
\* last data_capacity bytes of the input in order: nothing older remains.
\* (The strings of an oversized write step are those ending in written', the
\* history of the last data_capacity bytes written.)
C7_OversizedWrite ==
    [][(WriteStep /\ last_count' > data_capacity) =>
          \A pre \in [1..(last_count' - data_capacity) -> Byte] :
              LET s == pre \o written'
              IN  ram_console_write(s) =>
                      /\ size' = data_capacity
                      /\ Logical(buffer') = Last(s, data_capacity)]_vars

\* C7 witness: the latest write was longer than the data area and wrapped.
C7_Witness ==
    /\ registered /\ last_count > data_capacity
    /\ data_capacity >= 2
    /\ 0 < start /\ start < data_capacity
    /\ \E i, j \in 1..Len(written) : written[i] # written[j]

C9_RecoveryCorrect ==
    [][(/\ InitStep
        /\ buffer.sig = RAM_CONSOLE_SIG
        /\ start <= size
        /\ size <= buffer_size - HeaderSize
        /\ ~kmalloc_fails) =>
          /\ ram_console_old_log' # NULL
          /\ ram_console_old_log_size' = size
          /\ Len(ram_console_old_log') = size
          /\ \A i \in 1..size :
                ram_console_old_log'[i] =
                    IF i <= size - start
                    THEN buffer.data[start + i - 1]
                    ELSE buffer.data[i - (size - start) - 1]]_vars

\* C9 as written: the same with no condition on the allocation.
C9_AsWritten ==
    [][(/\ InitStep
        /\ buffer.sig = RAM_CONSOLE_SIG
        /\ start <= size
        /\ size <= buffer_size - HeaderSize) =>
          /\ ram_console_old_log' # NULL
          /\ ram_console_old_log_size' = size
          /\ Len(ram_console_old_log') = size
          /\ \A i \in 1..size :
                ram_console_old_log'[i] =
                    IF i <= size - start
                    THEN buffer.data[start + i - 1]
                    ELSE buffer.data[i - (size - start) - 1]]_vars

\* C9 witness: the first boot has recovered, from the header it found, a full
\* log that is a proper rotation of the data area.
C9_Witness ==
    /\ pc = "run" /\ prev_written = NULL /\ total = 0 /\ last_count = 0
    /\ ram_console_old_log # NULL
    /\ data_capacity >= 2
    /\ Len(ram_console_old_log) = data_capacity
    /\ ram_console_old_log # Slice(buffer.data, 0, data_capacity)

C6_Example ==
    [][(/\ registered
        /\ written = Rep(Char.A, 4) /\ total = 4
        /\ ram_console_write(Rep(Char.B, ExTotal))) =>
          /\ start' = 4
          /\ size' = buffer_size - HeaderSize
          /\ (buffer_size = ExTotal + HeaderSize) => size' = ExTotal
          /\ Logical(buffer') = Rep(Char.B, size')]_vars

\* C6 as written: 1024 bytes of "B", start == 0 and size == 1024.
C6_AsWritten ==
    [][(/\ registered
        /\ written = Rep(Char.A, 4) /\ total = 4
        /\ ram_console_write(Rep(Char.B, ExTotal))) =>
          /\ start' = 0
          /\ size' = ExTotal
          /\ Logical(buffer') = Rep(Char.B, ExTotal)]_vars

\* C6 witness: 1024 bytes were just written to a data area of 1024 bytes that
\* now holds only "B", with start at 4.
C6_Witness ==
    /\ registered /\ last_count = ExTotal
    /\ data_capacity = ExTotal /\ size = ExTotal /\ start = 4
    /\ written = Rep(Char.B, ExTotal)
    /\ \A i \in 0..(ExTotal - 1) : buffer.data[i] = Char.B

\* C16: recovery allocation failure.  When an initialization finds a header
\* that passes the test and kmalloc cannot give the destination buffer, no
\* recovered log is exposed (ram_console_old_log stays NULL, its size 0), and
\* yet the header is reset to (RAM_CONSOLE_SIG, 0, 0) and the console is
\* registered.
C16_AllocFailure ==
    [][(/\ InitStep
        /\ ~CapacityRejected(buffer_size)
        /\ HeaderValid(buffer, DataCapacity(buffer_size))
        /\ kmalloc_fails) =>
          /\ ram_console_old_log' = NULL
          /\ ram_console_old_log_size' = 0
          /\ buffer'.sig = RAM_CONSOLE_SIG /\ start' = 0 /\ size' = 0
          /\ registered']_vars

\* C16 witness: a boot whose kmalloc failed runs with a registered console, a
\* reset header and no recovered log, after a boot that had written two bytes.
C16_Witness ==
    /\ pc = "run" /\ kmalloc_fails /\ registered /\ total = 0
    /\ prev_written # NULL /\ Len(prev_written) = 2
    /\ ram_console_old_log = NULL /\ ram_console_old_log_size = 0
    /\ buffer.sig = RAM_CONSOLE_SIG /\ start = 0 /\ size = 0

\* The bytes of the parity table reserved for a region with pre bytes after
\* its header, and the total sizes too small for header and parity table.
ParityTableSize(pre) == (DIV_ROUND_UP(pre, ECC_BLOCK_SIZE) + 1) * ECC_SIZE
TooSmall(n) ==
    \/ n < HeaderSize
    \/ ecc /\ n < HeaderSize + ParityTableSize(n - HeaderSize)

\* C15: insufficient capacity.  When the region is smaller than the header
\* (in the ECC build: than header plus parity table), initialization leaves
\* the region's header and data unchanged, recovers nothing and does not
\* register the console; nothing is written to the region for the rest of
\* the boot.
C15_InsufficientCapacity ==
    /\ [][(InitStep /\ TooSmall(buffer_size)) =>
            /\ buffer' = buffer
            /\ ram_console_old_log' = NULL
            /\ ram_console_old_log_size' = 0
            /\ ~registered']_vars
    /\ [][(pc = "run" /\ TooSmall(buffer_size)) =>
            (buffer' = buffer /\ ~registered')]_vars

\* C15 witness: an ECC boot runs, its console unregistered, over a region
\* that holds the header but not the parity table; the foreign header it
\* found is still there.
C15_Witness ==
    /\ pc = "run" /\ ecc
    /\ buffer_size >= HeaderSize /\ TooSmall(buffer_size)
    /\ ~registered /\ ram_console_old_log = NULL
    /\ buffer.sig = BadSig /\ buffer.size = 1

\* Where the parity table starts, as an offset into buffer->data
\* (ram_console_par_buffer = buffer->data + ram_console_buffer_size), and
\* where the segment of index idx ends.
ParBufferOffset == ram_console_buffer_size
SegmentEnd(idx) == ParBufferOffset + (idx + 1) * ECC_SIZE

\* C17: ECC layout.  In the ECC build, after an initialization that accepted
\* the total size, header, data area and parity table fill the region
\* exactly: HeaderSize + data_capacity + (ceil(pre / ECC_BLOCK_SIZE) + 1) *
\* ECC_SIZE == buffer_size, pre the capacity before the parity table was
\* taken out; the table starts where the data area ends, and the segments of
\* the blocks of the data area and the one of the header, which comes after
\* them, end inside the region.
C17_EccLayout ==
    (pc = "run" /\ ecc /\ ~Rejected(buffer_size)) =>
        LET pre     == buffer_size - HeaderSize
            nblocks == DIV_ROUND_UP(data_capacity, ECC_BLOCK_SIZE)
        IN  /\ HeaderSize + data_capacity + ParityTableSize(pre) = buffer_size
            /\ data_capacity >= 0
            /\ ParBufferOffset = data_capacity
            /\ nblocks + 1 <= DIV_ROUND_UP(pre, ECC_BLOCK_SIZE) + 1
            /\ \A idx \in 0..nblocks : SegmentEnd(idx) <= pre

\* C17 witness: an ECC boot runs over an accepted region whose data area
\* ends with a partial block.
C17_Witness ==
    /\ pc = "run" /\ ecc /\ ~Rejected(buffer_size) /\ registered
    /\ data_capacity = EccMaxCap
    /\ data_capacity % ECC_BLOCK_SIZE # 0

\* The block of index k of the data area, as ram_console_update encodes it:
\* ECC_BLOCK_SIZE bytes, fewer when the data area ends before.
Block(b, k) ==
    Slice(b.data, k * ECC_BLOCK_SIZE,
          Min((k + 1) * ECC_BLOCK_SIZE, data_capacity))
\* The stored parity of block k is the encoding of its content.
BlockConsistent(b, k) == ParLoad(b.par, k) = rs_encode(Block(b, k))
\* The offsets of the data area a write of count bytes stores to, from the
\* start found.
Touched(b, count) ==
    IF data_capacity = 0 THEN {}
    ELSE {(b.start + i) % data_capacity :
              i \in 0..(Min(count, data_capacity) - 1)}

\* C18: in the ECC build, when a write completes, every block holding a byte
\* it wrote has a parity segment equal to the encoding of the block's content
\* after the write, the partial last block encoded over the bytes it has; and
\* in every state between writes each block that starts below size is parity
\* consistent.
C18_BlockParity ==
    /\ [][(WriteStep /\ ecc) =>
            \A o \in Touched(buffer, last_count') :
                BlockConsistent(buffer', o \div ECC_BLOCK_SIZE)]_vars
    /\ []((pc = "run" /\ ecc /\ registered) =>
            \A k \in 0..(DIV_ROUND_UP(size, ECC_BLOCK_SIZE) - 1) :
                BlockConsistent(buffer, k))

\* C18 witness: one write has filled a data area of a whole block and a
\* partial one, and both parity segments match.
C18_Witness ==
    /\ pc = "run" /\ ecc /\ registered
    /\ data_capacity = EccMaxCap /\ last_count = EccMaxCap
    /\ total = EccMaxCap /\ size = EccMaxCap
    /\ Len(Block(buffer, 1)) = 1
    /\ BlockConsistent(buffer, 0) /\ BlockConsistent(buffer, 1)

\* The header's parity segment, after those of the data blocks.
HeaderParity(b) ==
    ParLoad(b.par, DIV_ROUND_UP(data_capacity, ECC_BLOCK_SIZE))

\* C19: in the ECC build every write ends by recomputing the header's parity:
\* when a write has completed, the header's parity segment is the encoding
\* of the header (sig, start, size) the write left.
C19_HeaderParityLast ==
    [][(WriteStep /\ ecc) =>
          HeaderParity(buffer') = rs_encode(HeaderSymbols(buffer'))]_vars

\* C19 witness: a write has wrapped, moving both start and size, and the
\* header's parity encodes the header it left.
C19_Witness ==
    /\ pc = "run" /\ ecc /\ registered
    /\ total > data_capacity /\ start > 0 /\ size = data_capacity
    /\ HeaderParity(buffer) = rs_encode(<<RAM_CONSOLE_SIG, start, size>>)

\* The sum of f over the set S.
RECURSIVE SumOver(_, _)
SumOver(S, f) ==
    IF S = {} THEN 0
    ELSE LET x == CHOOSE y \in S : TRUE IN f[x] + SumOver(S \ {x}, f)

\* An initialization step of the ECC build that gets as far as decoding.
DecodingInitStep ==
    InitStep /\ ecc /\ ~Rejected(buffer_size) /\ ~init_rs_fails

\* C20: ECC decode outcomes are counted, never fatal.  In an initialization
\* of the ECC build the header is decoded, and then, when the header found
\* after that passes the test, every block that starts below its size.  The
\* bad-block counter ends as the number of those units that were
\* uncorrectable, the corrected-bytes counter as the sum of the symbols
\* corrected in the others; whatever the outcomes, the header is reset, the
\* console registered, and the old log recovered when the header passes the
\* test and the destination buffer is allocated.
C20_DecodeCounters ==
    [][DecodingInitStep =>
          LET cap     == EccCapacity(DataCapacity(buffer_size))
              hidx    == DIV_ROUND_UP(cap, ECC_BLOCK_SIZE)
              hr      == rs_decode_header(HeaderSymbols(buffer),
                                          ParLoad(buffer.par, hidx))
              valid   == /\ hr.data[1] = RAM_CONSOLE_SIG
                         /\ hr.data[3] <= cap
                         /\ hr.data[2] <= hr.data[3]
              nblocks == IF valid
                         THEN DIV_ROUND_UP(hr.data[3], ECC_BLOCK_SIZE)
                         ELSE 0
              units   == 0..nblocks
              numerr  == [u \in units |->
                            IF u = nblocks THEN hr.numerr
                            ELSE rs_decode(
                                   Slice(buffer.data, u * ECC_BLOCK_SIZE,
                                         Min((u + 1) * ECC_BLOCK_SIZE, cap)),
                                   ParLoad(buffer.par, u)).numerr]
              fixed   == [u \in units |->
                            IF numerr[u] > 0 THEN numerr[u] ELSE 0]
          IN  /\ ram_console_bad_blocks' =
                     Cardinality({u \in units : numerr[u] < 0})
              /\ ram_console_corrected_bytes' = SumOver(units, fixed)
              /\ buffer'.sig = RAM_CONSOLE_SIG /\ start' = 0 /\ size' = 0
              /\ registered'
              /\ (valid /\ ~kmalloc_fails) =>
                     /\ ram_console_old_log' # NULL
                     /\ ram_console_old_log_size' = Len(ram_console_old_log')
                     /\ ram_console_old_log_size' >= hr.data[3]]_vars

\* C20 witness: an initialization counted an uncorrectable unit and a
\* corrected symbol, and still recovered a log and registered the console.
C20_Witness ==
    /\ pc = "run" /\ ecc /\ registered /\ total = 0
    /\ ram_console_bad_blocks > 0 /\ ram_console_corrected_bytes > 0
    /\ ram_console_old_log # NULL
    /\ ram_console_old_log_size > Len(TxtNoErrors)

\* The recovered log and its length, as the claims name them.
log == ram_console_old_log
L == Len(ram_console_old_log)

\* C12: old-log read-back.  A read at offset o with maximum length len
\* returns 0 bytes when o >= L; otherwise it returns min(len, L - o) bytes,
\* equal to log[o .. o + count), and advances the offset by that count;
\* when the copy to the caller fails it returns an error and leaves the
\* offset where it was.
C12_ReadBack ==
    [][\A len \in 0..MaxRead, fault \in BOOLEAN :
          ram_console_read_old(len, fault) =>
             LET o     == offset
                 count == IF len < L - o THEN len ELSE L - o
             IN  IF o >= L
                 THEN ret' = 0 /\ ubuf' = << >> /\ offset' = o
                 ELSE IF fault /\ count > 0
                 THEN ret' < 0 /\ offset' = o
                 ELSE /\ ret' = count
                      /\ Len(ubuf') = count
                      /\ \A i \in 1..count : ubuf'[i] = log[o + i]
                      /\ offset' = o + count]_vars

\* C12 witness: a read at offset 1 returned the rest of the log, two
\* different bytes, and moved the offset to the end.
C12_Witness ==
    /\ last_kmsg = "present"
    /\ origin = 1 /\ ret = L - 1 /\ ret >= 2 /\ offset = L
    /\ ubuf = SubSeq(log, 2, L)
    /\ ubuf[1] # ubuf[2]

\* C13: chunked read-back.  Reading from offset 0 with any positive chunk
\* lengths, the offset fed back each time, the chunks returned so far are
\* together the log up to the offset, which never passes L; each call below L
\* returns at least one byte and moves the offset by what it returned, so
\* after at most L calls a call finds the offset at L, returns zero bytes,
\* and the chunks together are the whole log.
C13_ChunkedRead ==
    /\ []((last_kmsg = "present" /\ origin = 0) =>
            (offset <= L /\ acc = SubSeq(log, 1, offset)))
    /\ [][\A len \in 1..MaxRead :
             (origin = 0 /\ ram_console_read_old(len, FALSE)) =>
                IF offset < L
                THEN ret' > 0 /\ offset' = offset + ret'
                ELSE ret' = 0 /\ acc' = log]_vars

\* C13 witness: a log longer than one chunk, holding both byte values, was
\* read from offset 0 to its end, and the latest call returned zero bytes.
C13_Witness ==
    /\ last_kmsg = "present"
    /\ origin = 0 /\ offset = L /\ L > MaxRead
    /\ ret = 0 /\ acc = log
    /\ \E i, j \in 1..L : log[i] # log[j]

\* C14: the recovered log is an immutable snapshot.  No write to the live
\* log changes its bytes or its length; while /proc/last_kmsg exists they are
\* what they were when it was created, and every read returns the bytes of
\* that snapshot at its offset, whatever was written in between.
C14_ImmutableSnapshot ==
    /\ []((last_kmsg = "present") =>
            (log = snapshot /\ ram_console_old_log_size = Len(snapshot)))
    /\ [][(\E s \in ReadStrings : ram_console_write(s)) =>
             UNCHANGED <<ram_console_old_log, ram_console_old_log_size>>]_vars
    /\ [][\A len \in 0..MaxRead :
             (ram_console_read_old(len, FALSE) /\ ret' > 0) =>
                ubuf' = SubSeq(snapshot, offset + 1, offset + ret')]_vars

\* C14 witness: after writes that filled the live data area with bytes that
\* differ from the old log's, a read from offset 0 returned the old log's.
C14_Witness ==
    /\ last_kmsg = "present"
    /\ total > data_capacity
    /\ origin = 0 /\ ret = MaxRead /\ offset = MaxRead
    /\ ubuf = SubSeq(snapshot, 1, MaxRead)
    /\ \A i \in 1..MaxRead : buffer.data[i - 1] # snapshot[i]

\* a is a subsequence of b: its elements are found in b in the same order.
RECURSIVE IsSubseq(_, _)
IsSubseq(a, b) ==
    IF a = << >> THEN TRUE
    ELSE IF b = << >> THEN FALSE
    ELSE IF Head(a) = Head(b) THEN IsSubseq(Tail(a), Tail(b))
    ELSE IsSubseq(a, Tail(b))

\* The offsets of the data area in the logical order of the region b.
LogicalOffsets(b) ==
    [i \in 1..b.size |->
        IF i <= b.size - b.start THEN b.start + i - 1
        ELSE i - (b.size - b.start) - 1]

\* What was logically present in b, less the bytes at the offsets a write of
\* count bytes stores to.
Survivors(b, count) ==
    LET keep == SelectSeq(LogicalOffsets(b),
                          LAMBDA o : o \notin Touched(b, count))
    IN  [i \in 1..Len(keep) |-> b.data[keep[i]]]

\* The store-by-store write leaves what ram_console_write leaves.
StepwiseIsWrite ==
    [][(wpc = "sizeadd" /\ wpc' = "idle" /\ pc' = "run") =>
          buffer' = WriteBuffer(w_pre, ram_console_buffer_size,
                                Last(written, last_count))]_vars

\* C11: crash consistency of write.  When a crash has cut a write short
\* after any of its stores, the next initialization (its destination buffer
\* allocated) finds a valid header and recovers a log in which the content
\* that was logically present before that write, less the bytes at the
\* offsets the write stores to, is found in its order.
C11_CrashConsistent ==
    (pc = "run" /\ cut /\ wpc = "idle" /\ ~kmalloc_fails) =>
        /\ ram_console_old_log # NULL
        /\ IsSubseq(Survivors(w_pre, w_count), ram_console_old_log)

\* C21: write frame.  A write of n bytes (n after the clamp) copies the
\* first min(n, data_capacity - start) of them to [start, data_capacity) and
\* the others to [0, ...); every other byte of the data area and the
\* signature are as before.
C21_WriteFrame ==
    [][WriteStep =>
          LET n     == Min(last_count', data_capacity)
              c     == Last(written', n)
              first == Min(n, data_capacity - start)
          IN  /\ buffer'.sig = buffer.sig
              /\ DOMAIN buffer'.data = DOMAIN buffer.data
              /\ \A i \in DOMAIN buffer.data :
                     buffer'.data[i] =
                        IF start <= i /\ i < start + first
                        THEN c[i - start + 1]
                        ELSE IF i < n - first THEN c[first + i + 1]
                        ELSE buffer.data[i]]_vars

\* C21 witness: a write of two bytes reached the end of the largest data
\* area after its first byte and put the second at offset 0; the byte
\* between the two was written by neither.
C21_Witness ==
    /\ pc = "run" /\ registered
    /\ data_capacity = MaxCap /\ last_count = 2
    /\ start = 1 /\ size = data_capacity /\ total > data_capacity
    /\ buffer.data[data_capacity - 1] # buffer.data[0]

\* A write step that takes the wrap branch of ram_console_write.
WrapStep ==
    WriteStep /\ data_capacity - start < Min(last_count', data_capacity)

\* C22: between writes the live header passes the validity test of
\* ram_console_init.  After initialization and any number of completed
\* writes the signature is the magic value and start <= size <=
\* data_capacity; size equals start until the first wrap and equals
\* data_capacity from then on; and the initialization of the boot that
\* follows finds a header it accepts.
C22_LiveHeaderValid ==
    /\ [](pc = "run" /\ registered =>
             /\ buffer.sig = RAM_CONSOLE_SIG
             /\ start <= size /\ size <= data_capacity
             /\ HeaderValid(buffer, data_capacity))
    /\ [][InitStep /\ registered' => start' = 0 /\ size' = 0]_vars
    /\ [][WriteStep =>
             IF size = data_capacity \/ WrapStep
             THEN size' = data_capacity
             ELSE size' = start']_vars
    /\ [](pc = "boot" /\ prev_written # NULL =>
             HeaderValid(buffer, DataCapacity(buffer_size)))

\* C22 witness: the boot that ended wrote past the end of the largest data
\* area, and the next initialization is about to test the header it left.
C22_Witness ==
    /\ pc = "boot" /\ prev_written # NULL
    /\ DataCapacity(buffer_size) = MaxCap /\ total > MaxCap
    /\ size = MaxCap /\ 0 < start /\ start < size

\* C23: in the ECC build, when an initialization completes, the header's
\* parity segment is the encoding of the re-armed header (magic, 0, 0); so
\* the initialization of a boot that follows one without a write, the region
\* untouched in between, corrects no symbol of the header and recovers no
\* byte of an older log.
C23_RearmedHeaderParity ==
    /\ [][DecodingInitStep =>
             (HeaderParity(buffer))' = rs_encode(<<RAM_CONSOLE_SIG, 0, 0>>)]_vars
    /\ [][(DecodingInitStep /\ prev_written = << >> /\ flips = 0) =>
             /\ ram_console_corrected_bytes' = 0
             /\ ram_console_old_log' \in {NULL, TxtNoErrors}]_vars

\* The parity segments that the ram_console_update calls of one
\* ram_console_write of n bytes (n after the clamp) store to: those of the
\* copy up to the end of the data area and of the copy at offset 0 when the
\* write wraps, those of the one copy otherwise.
DataSegmentsWritten(b, cap, n) ==
    LET rem == cap - b.start
    IN  IF rem < n
        THEN UpdateSegments(b.start, rem) \cup UpdateSegments(0, n - rem)
        ELSE UpdateSegments(b.start, n)

\* C24: in the ECC build, whatever the start (start == data_capacity
\* included) and the length of a write (0 included), every parity segment
\* that ram_console_update stores for a data block has an index below
\* ceil(data_capacity / block size): it is not the header's segment and not
\* past the end of the region.
C24_ParityIndexSafe ==
    [][(WriteStep /\ ecc) =>
          \A idx \in DataSegmentsWritten(buffer, data_capacity,
                                         Min(last_count', data_capacity)) :
              idx < DIV_ROUND_UP(data_capacity, ECC_BLOCK_SIZE)]_vars

\* C25: the cable-event worker of the max77693 charger runs against a
\* registered power supply only: however cable notifications interleave
\* with probe and remove, every call of power_supply_changed happens after
\* probe's power_supply_register has completed and before remove's
\* power_supply_unregister.
C25_NotifyRegisteredOnly ==
    [][notified' # notified => charger = "registered"]_vars

\* C26: whenever max77693_charger_probe has returned an error after
\* registering an extcon notifier, no notifier of the SDP or the DCP cable
\* is registered any more and no sysfs attribute it created exists.
C26_ProbeErrorCleansUp ==
    ppc = "failed" => (notifiers = {} /\ files = {})

\* A step that ends a run of the worker on a chg that exists.
RunEnds ==
    /\ wk \notin {"idle", "oops"} /\ wk' \in {"idle", "oops"}
    /\ ChgLive

\* C27: a run of the cable-event worker that finds the cable state changed
\* and whose regulator calls succeed ends with the charger regulator enabled
\* exactly when an SDP or DCP cable was found connected, and calls
\* power_supply_changed once, after that; a run that finds no change ends
\* with the regulator and cable.connected as they were at its start and
\* without a call.  The cable state found is that of the cable read last:
\* SDP when it is connected, DCP otherwise.
C27_WorkerOutcome ==
    /\ [][(RunEnds /\ wk = "notify") =>
             /\ notified' = notified + 1
             /\ regu_enabled' = regu_enabled
             /\ cable_connected' = cable_connected
             /\ cable_connected # old_connected
             /\ ~regu_failed => (regu_enabled = cable_connected)]_vars
    /\ [][(RunEnds /\ wk # "notify") =>
             /\ cable_connected' = old_connected
             /\ cable_connected' = cable_connected
             /\ notified' = notified]_vars
    /\ [][(wk \in {"get_sdp", "get_dcp"} /\ wk' \in {"idle", "regulator"}
             /\ ChgLive) =>
             cable_connected' = (IF wk = "get_sdp" THEN extcon.SDP
                                 ELSE extcon.DCP)]_vars
    /\ [][(wk \in {"idle", "get_sdp", "get_dcp"} /\ ChgLive) =>
             (regu_enabled' = regu_enabled /\ notified' = notified)]_vars
    /\ [][(wk = "regulator" /\ ChgLive) => notified' = notified]_vars

\* C27 witness: on a bound driver one run found a cable connected and
\* enabled the charger, a later run found none and disabled it; each
\* notified the power supply.
C27_Witness ==
    /\ ppc = "bound" /\ wk = "idle" /\ ~work_pending
    /\ notified = 2 /\ ~regu_failed
    /\ ~extcon.SDP /\ ~extcon.DCP
    /\ ~cable_connected /\ ~regu_enabled

====
